---- MODULE Spec2Model ----
(***************************************************************************)
(* Model of convert_wav.py: the per-file pipeline of                       *)
(* convert_wav_to_mozzi_sample (decode, requantize to 16 bit, mix to mono, *)
(* resample to 16384 Hz, requantize to 8 bit, serialize a C header) and    *)
(* the batch loop of __main__.                                             *)
(*                                                                         *)
(* A WAV file is modelled by what wave.open reports (sample width,         *)
(* channels, frame rate, frame count) and by the bytes of its data chunk.  *)
(* max_duration is a rational number of seconds, num / DurDen, with DurDen *)
(* a power of two, so that the product max_duration * sample_rate is       *)
(* computed exactly by the floating-point multiplication of the source.    *)
(***************************************************************************)
EXTENDS Integers, Sequences, FiniteSets, TLC

VARIABLES
    pc,            \* position in convert_wav_to_mozzi_sample / the batch loop
    wav,           \* the input file: [width, channels, rate, nframes, data]
    max_duration,  \* numerator of max_duration over DurDen
    fault,         \* the stage in which the environment raises an error, or "none"
    raw_audio,     \* bytes returned by readframes
    samples,       \* the sample buffer carried through the stages
    sample_rate,   \* local sample_rate (set to 16384 by the resampler)
    channels,      \* local channels (set to 1 by the mixer)
    frames,        \* local frames after truncation
    stage_in,      \* the buffer a stage received (history of the last stage)
    text,          \* characters written between "{\n" and "};" of the header
    length_const,  \* value written for <name>_length, -1 when not written
    outfile,       \* the output header: "absent", "old", "partial", "written"
    result,        \* return value: "none", "True", "False", "raised"
    batch,         \* the files of drum_samples: sequence of [exists, fault]
    idx,           \* index of the next file of the batch loop
    all_success,   \* all_success of __main__
    processed,     \* per file: "pending", "skipped", "True", "False"
    exit_status    \* process exit status, -1 while running

vars == <<pc, wav, max_duration, fault, raw_audio, samples, sample_rate,
          channels, frames, stage_in, text, length_const, outfile, result,
          batch, idx, all_success, processed, exit_status>>

pipe_vars == <<wav, max_duration, fault, raw_audio, samples, sample_rate,
               channels, frames, stage_in, text, length_const, outfile, result>>

batch_vars == <<batch, idx, all_success, processed, exit_status>>

(***************************************************************************)
(* Program constants                                                       *)
(***************************************************************************)
TargetRate == 16384

RowLen == 16

NumFiles == 4

BatchMaxDuration == 2

DefaultMaxDuration == 5

\* Denominator of the modelled max_duration values (2^16).
DurDen == 2 ^ 16

(***************************************************************************)
(* Integer helpers                                                         *)
(***************************************************************************)
Min(a, b) == IF a <= b THEN a ELSE b

Max(a, b) == IF a >= b THEN a ELSE b

\* Python's int(x) of a quotient a / b, b > 0: truncation toward zero.
TruncDiv(a, b) == IF a >= 0 THEN a \div b ELSE -((-a) \div b)

\* Python's a // b and a >> k: floor division.
FloorDiv(a, b) == a \div b

\* Python's round(a / b), b > 0: to nearest, ties to even.
RoundDiv(a, b) ==
    LET q == a \div b
        r == a % b
    IN  IF 2 * r < b THEN q
        ELSE IF 2 * r > b THEN q + 1
        ELSE IF q % 2 = 0 THEN q ELSE q + 1

Pow2(k) == 2 ^ k

Clamp(lo, hi, x) == Max(lo, Min(hi, x))

InInt16(x) == -32768 <= x /\ x <= 32767

InInt8(x) == -128 <= x /\ x <= 127

(***************************************************************************)
(* The WAV data chunk: little-endian encodings of a sample in `width`      *)
(* bytes.  8-bit samples are unsigned bytes; wider samples are two's       *)
(* complement.  Used to build the input files.                             *)
(***************************************************************************)
RECURSIVE EncodeLE(_, _)
EncodeLE(v, width) ==
    IF width = 0 THEN <<>>
    ELSE <<v % 256>> \o EncodeLE(v \div 256, width - 1)

RECURSIVE EncodeAll(_, _)
EncodeAll(vals, width) ==
    IF vals = <<>> THEN <<>>
    ELSE EncodeLE(Head(vals), width) \o EncodeAll(Tail(vals), width)

(***************************************************************************)
(* Exceptions.  Every error raised inside the try block is one of these    *)
(* classes; `except Exception` catches the subclasses of Exception.        *)
(***************************************************************************)
ExceptionSubclasses ==
    {"OSError", "wave.Error", "EOFError", "ZeroDivisionError", "ValueError",
     "struct.error", "MemoryError"}

\* A mutation of the handler: it names one class only.
CatchesOnlyValueError(exc) == exc = "ValueError"

\* except Exception as e
Catches(exc) == exc \in ExceptionSubclasses

\* The class of the error the environment raises in a stage.
ExcOf(stage) ==
    CASE stage = "open" -> "wave.Error"
      [] stage = "decode" -> "OSError"
      [] stage = "requantize" -> "struct.error"
      [] stage = "mix" -> "MemoryError"
      [] stage = "resample" -> "MemoryError"
      [] stage = "final" -> "MemoryError"
      [] stage = "create" -> "OSError"
      [] stage = "write" -> "OSError"
      [] OTHER -> "none"

Stages == <<"open", "decode", "requantize", "mix", "resample", "final", "serialize">>

Faults == {"none", "open", "decode", "requantize", "mix", "resample", "final",
           "create", "write"}

(***************************************************************************)
(* Decoder: truncation to max_duration                                     *)
(***************************************************************************)
\* A mutation: the product rounded up instead of truncated.
MaxFramesCeil(num, rate) ==
    (num \div DurDen) * rate + (((num % DurDen) * rate) + DurDen - 1) \div DurDen

\* max_frames = int(max_duration * sample_rate), max_duration = num / DurDen >= 0
MaxFrames(num, rate) ==
    (num \div DurDen) * rate + TruncDiv((num % DurDen) * rate, DurDen)

\* if frames > max_frames: frames = max_frames
TruncatedFrames(nframes, num, rate) ==
    IF nframes > MaxFrames(num, rate) THEN MaxFrames(num, rate) ELSE nframes

\* wav_file.readframes(frames): at most frames * framesize bytes of the data chunk
ReadFrames(data, nfr, framesize) ==
    SubSeq(data, 1, Min(nfr * framesize, Len(data)))

(***************************************************************************)
(* Requantizer: to 16-bit samples                                          *)
(***************************************************************************)
\* struct.unpack of one little-endian signed integer of Len(b) bytes
SignedLE(b) ==
    LET n == Len(b)
        hi == IF b[n] >= 128 THEN b[n] - 256 ELSE b[n]
        RECURSIVE Low(_)
        Low(k) == IF k = 0 THEN 0 ELSE b[k] * Pow2(8 * (k - 1)) + Low(k - 1)
    IN  hi * Pow2(8 * (n - 1)) + Low(n - 1)

\* A mutation: the midpoint 128 not subtracted.
From8BitNoOffset(s) == s * 256

\* (s - 128) * 256
From8Bit(s) == (s - 128) * 256

\* A mutation: the 24-bit value never converted to signed.
From24BitUnsigned(byte1, byte2, byte3) ==
    Clamp(-32768, 32767, FloorDiv(byte1 + byte2 * 256 + byte3 * 65536, 256))

\* The 24-bit branch for one sample of three bytes.
From24Bit(byte1, byte2, byte3) ==
    LET sample_24bit == byte1 + byte2 * 256 + byte3 * 65536
        signed == IF sample_24bit >= 8388608 THEN sample_24bit - 16777216
                  ELSE sample_24bit
        sample_16bit == FloorDiv(signed, 256)
    IN  Clamp(-32768, 32767, sample_16bit)

\* max(-32768, min(32767, s >> 16))
From32Bit(s) == Clamp(-32768, 32767, FloorDiv(s, 65536))

\* The if/elif chain on sample_width: [exc, samples].
Requantize(sample_width, raw) ==
    CASE sample_width = 1 ->
           [exc |-> "none", samples |-> [i \in 1..Len(raw) |-> From8Bit(raw[i])]]
      [] sample_width = 2 ->
           IF Len(raw) % 2 # 0 THEN [exc |-> "struct.error", samples |-> <<>>]
           ELSE [exc |-> "none",
                 samples |-> [i \in 1..(Len(raw) \div 2) |->
                                 SignedLE(SubSeq(raw, 2 * i - 1, 2 * i))]]
      [] sample_width = 3 ->
           [exc |-> "none",
            samples |-> [k \in 1..(Len(raw) \div 3) |->
                            From24Bit(raw[3 * k - 2], raw[3 * k - 1], raw[3 * k])]]
      [] sample_width = 4 ->
           IF Len(raw) % 4 # 0 THEN [exc |-> "struct.error", samples |-> <<>>]
           ELSE [exc |-> "none",
                 samples |-> [i \in 1..(Len(raw) \div 4) |->
                                 From32Bit(SignedLE(SubSeq(raw, 4 * i - 3, 4 * i)))]]
      [] OTHER -> [exc |-> "ValueError", samples |-> <<>>]

(***************************************************************************)
(* Channel mixer                                                           *)
(***************************************************************************)
\* A mutation: the average rounded toward zero.
MixPairTrunc(l, r) == TruncDiv(l + r, 2)

\* mixed = (samples[i] + samples[i+1]) // 2
MixPair(l, r) == FloorDiv(l + r, 2)

\* The stereo branch: drop an unpaired trailing sample, then average pairs.
MixStereo(s) ==
    LET even == IF Len(s) % 2 # 0 THEN SubSeq(s, 1, Len(s) - 1) ELSE s
    IN  [k \in 1..(Len(even) \div 2) |-> MixPair(even[2 * k - 1], even[2 * k])]

(***************************************************************************)
(* Resampler                                                               *)
(***************************************************************************)
\* A mutation: the length rounded to nearest.
NewLengthRounded(n, rate) == RoundDiv(n * TargetRate, rate)

\* new_length = int(len(samples_array) * resample_ratio)
NewLength(n, rate) == TruncDiv(n * TargetRate, rate)

\* astype(np.int16) of a value num / den: truncation, kept in 16 bits
AsInt16(num, den) ==
    LET t == TruncDiv(num, den)
    IN  ((t + 32768) % 65536) - 32768

\* np.interp at the k-th of m points of np.linspace(0, n - 1, m), then astype
InterpAt(s, k, m) ==
    LET n == Len(s)
        den == IF m > 1 THEN m - 1 ELSE 1
        pos == IF m > 1 THEN k * (n - 1) ELSE 0
        j == pos \div den
        rem == pos % den
    IN  IF j >= n - 1 THEN AsInt16(s[n], 1)
        ELSE AsInt16(s[j + 1] * den + (s[j + 2] - s[j + 1]) * rem, den)

\* The resampling branch: [exc, samples]; np.interp rejects an empty xp.
Resample(s, rate) ==
    LET m == NewLength(Len(s), rate)
    IN  IF Len(s) = 0 THEN [exc |-> "ValueError", samples |-> <<>>]
        ELSE [exc |-> "none", samples |-> [k \in 1..m |-> InterpAt(s, k - 1, m)]]

(***************************************************************************)
(* Final requantizer: 16 bit to 8 bit                                      *)
(***************************************************************************)
\* A mutation: the quotient floored (sample >> 8) instead of truncated.
To8BitFloor(sample) == Clamp(-128, 127, FloorDiv(sample, 256))

\* max(-128, min(127, int(sample / 256)))
To8Bit(sample) == Clamp(-128, 127, TruncDiv(sample, 256))

FinalRequantize(s) == [i \in 1..Len(s) |-> To8Bit(s[i])]

(***************************************************************************)
(* Serializer: the rows of the array literal, as a sequence of characters  *)
(***************************************************************************)
DigitChars == <<"0", "1", "2", "3", "4", "5", "6", "7", "8", "9">>

RECURSIVE DecimalDigits(_)
DecimalDigits(n) ==
    IF n < 10 THEN <<DigitChars[n + 1]>>
    ELSE DecimalDigits(n \div 10) \o <<DigitChars[(n % 10) + 1]>>

RECURSIVE Spaces(_)
Spaces(k) == IF k <= 0 THEN <<>> ELSE <<" ">> \o Spaces(k - 1)

\* f'{s:4d}': the decimal numeral, right-aligned in at least 4 columns
Format4d(v) ==
    LET numeral == IF v < 0 THEN <<"-">> \o DecimalDigits(-v) ELSE DecimalDigits(v)
    IN  Spaces(4 - Len(numeral)) \o numeral

\* ', '.join(f'{s:4d}' for s in chunk)
RECURSIVE JoinChunk(_)
JoinChunk(chunk) ==
    IF chunk = <<>> THEN <<>>
    ELSE IF Len(chunk) = 1 THEN Format4d(chunk[1])
    ELSE Format4d(chunk[1]) \o <<",", " ">> \o JoinChunk(Tail(chunk))

\* A mutation: the separator written after every row that is full.
RowCommaAfterFullRow(i, n) == i + RowLen <= n

\* if i + 16 < len(samples): f.write(",")
RowComma(i, n) == i + RowLen < n

\* One iteration of the row loop, i the 0-based index of the row's first sample.
Row(s, i) ==
    LET chunk == SubSeq(s, i + 1, Min(i + RowLen, Len(s)))
    IN  Spaces(4) \o JoinChunk(chunk)
        \o (IF RowComma(i, Len(s)) THEN <<",">> ELSE <<>>) \o <<"\n">>

\* for i in range(0, len(samples), 16)
RECURSIVE RowsFrom(_, _)
RowsFrom(s, i) ==
    IF i >= Len(s) THEN <<>> ELSE Row(s, i) \o RowsFrom(s, i + RowLen)

ArrayText(s) == RowsFrom(s, 0)

(***************************************************************************)
(* Reading an array literal back: a C initializer list without a trailing  *)
(* comma.  Tokens are integers and commas; the list is int ("," int)*.     *)
(***************************************************************************)
IsDigit(c) == \E d \in 1..10 : DigitChars[d] = c

DigitValue(c) == (CHOOSE d \in 1..10 : DigitChars[d] = c) - 1

\* A numeral starts at a sign, or at a digit that follows neither a digit nor
\* a sign.
StartsNumeral(t, i) ==
    \/ t[i] = "-"
    \/ /\ IsDigit(t[i])
       /\ i = 1 \/ ~(IsDigit(t[i - 1]) \/ t[i - 1] = "-")

\* The value of the digits of t from position i on, after the value acc.
RECURSIVE DigitsValue(_, _, _)
DigitsValue(t, i, acc) ==
    IF i > Len(t) \/ ~IsDigit(t[i]) THEN acc
    ELSE DigitsValue(t, i + 1, acc * 10 + DigitValue(t[i]))

\* The token that starts at position i, if one does.
TokenAt(t, i) ==
    IF t[i] = "," THEN <<[kind |-> "comma", val |-> 0]>>
    ELSE IF ~StartsNumeral(t, i) THEN <<>>
    ELSE IF t[i] = "-" THEN
        IF i < Len(t) /\ IsDigit(t[i + 1])
        THEN <<[kind |-> "int", val |-> -DigitsValue(t, i + 1, 0)]>>
        ELSE <<[kind |-> "bad", val |-> 0]>>
    ELSE <<[kind |-> "int", val |-> DigitsValue(t, i, 0)]>>

\* The tokens that start at positions lo..hi of the text, in order.
RECURSIVE TokensIn(_, _, _)
TokensIn(t, lo, hi) ==
    IF lo > hi THEN <<>>
    ELSE IF lo = hi THEN TokenAt(t, lo)
    ELSE LET mid == (lo + hi) \div 2
         IN  TokensIn(t, lo, mid) \o TokensIn(t, mid + 1, hi)

Tokens(t) == TokensIn(t, 1, Len(t))

\* The token list is int ("," int)* or empty: ints at odd places, commas at even
\* places, ending in an int.
WellFormedList(toks) ==
    /\ Len(toks) = 0 \/ Len(toks) % 2 = 1
    /\ \A k \in 1..Len(toks) :
          toks[k].kind = (IF k % 2 = 1 THEN "int" ELSE "comma")

ParsedValues(toks) ==
    LET ints == SelectSeq(toks, LAMBDA tk : tk.kind = "int")
    IN  [k \in 1..Len(ints) |-> ints[k].val]

CountChar(t, c) == Cardinality({i \in 1..Len(t) : t[i] = c})

(***************************************************************************)
(* Bounds of the model and the input files it draws                        *)
(***************************************************************************)
\* Most frames in a file's header.
MaxFrameCount == 4

\* Rotations of the sample patterns.
MaxSeed == 3

\* Largest short max_duration, in units of 1 / DurDen seconds.
MaxDurNum == 10

\* Longest final buffer of the serializer runs.
MaxSerialLen == 33

\* Samples per file of the requantizer runs.
MaxRangeLen == 2

Base8 == <<0, 128, 255, 64, 127, 129, 1, 200>>

Base16 == <<-32768, 32767, -1, 0, -3, 2, 255, -256, -32767, 1>>

Base24 == <<-8388607 - 1, 8388607, -1, 0, 255, 256, -257, 65536>>

Base32 == <<-2147483647 - 1, 2147483647, -1, 0, 65535, 65536, -65537, 1>>

BaseOf(width) ==
    CASE width = 1 -> Base8
      [] width = 3 -> Base24
      [] width = 4 -> Base32
      [] OTHER -> Base16

\* k sample values of the given width, the pattern rotated by seed
Pattern(width, seed, k) ==
    LET base == BaseOf(width)
    IN  [i \in 1..k |-> base[((seed + i - 1) % Len(base)) + 1]]

\* A WAV file whose header announces nframes frames and whose data chunk
\* lacks its last `short` bytes (a file cut off while being written).
MkWav(width, chans, rate, nframes, vals, short) ==
    LET full == EncodeAll(vals, width)
    IN  [width |-> width, channels |-> chans, rate |-> rate, nframes |-> nframes,
         data |-> SubSeq(full, 1, Max(0, Len(full) - short))]

DurNums == (0..MaxDurNum) \cup {BatchMaxDuration * DurDen, DefaultMaxDuration * DurDen}

PipeState(w, d, f, o) ==
    /\ pc = "open"
    /\ wav = w
    /\ max_duration = d
    /\ fault = f
    /\ outfile = o
    /\ raw_audio = <<>>
    /\ samples = <<>>
    /\ sample_rate = 0
    /\ channels = 0
    /\ frames = 0
    /\ stage_in = <<>>
    /\ text = <<>>
    /\ length_const = -1
    /\ result = "none"
    /\ batch = <<>>
    /\ idx = 0
    /\ all_success = TRUE
    /\ processed = <<>>
    /\ exit_status = -1

\* Files with every sample width, an error in any stage, old and new output.
Init ==
    \E width \in {1, 2, 3, 4, 5}, chans \in {1, 2}, rate \in {0, 8000, TargetRate},
       n \in 0..MaxFrameCount, short \in {0, 1}, f \in Faults,
       o \in {"absent", "old"} :
        PipeState(MkWav(width, chans, rate, n, Pattern(width, 0, n * chans), short),
                  BatchMaxDuration * DurDen, f, o)

\* Files around the truncation boundary.
InitTrunc ==
    \E width \in {1, 2}, chans \in {1, 2}, rate \in {8192, TargetRate, 32768, 65536},
       n \in 0..MaxFrameCount, d \in DurNums :
        PipeState(MkWav(width, chans, rate, n, Pattern(width, 0, n * chans), 0),
                  d, "none", "absent")

\* Mono and stereo files at several rates, whole and cut off.
InitAudio ==
    \E width \in {1, 2, 3}, chans \in {1, 2},
       rate \in {8000, 8192, TargetRate, 32768, 44100, 65536},
       n \in 0..MaxFrameCount, seed \in 0..MaxSeed, short \in {0, 1} :
        PipeState(MkWav(width, chans, rate, n, Pattern(width, seed, n * chans), short),
                  BatchMaxDuration * DurDen, "none", "absent")

\* Further values next to the steps of each requantizer.
StepVals(width) ==
    CASE width = 1 -> {2, 126, 130, 254}
      [] width = 3 -> {-65536, -256, -255, 65535, 8388352}
      [] width = 4 -> {-16777216, -65536, 16777215, 16777216, 2147418112}
      [] OTHER -> {-257, -255, 256, 257, 32512}

RangeVals(width) ==
    {BaseOf(width)[i] : i \in 1..Len(BaseOf(width))} \cup StepVals(width)

\* Files holding any one to MaxRangeLen of the boundary values of each width.
InitRange ==
    \E width \in {1, 2, 3, 4}, chans \in {1, 2}, rate \in {8192, TargetRate},
       len \in 1..MaxRangeLen :
        /\ len % chans = 0
        /\ \E vals \in [1..len -> RangeVals(width)] :
              PipeState(MkWav(width, chans, rate, len \div chans, vals, 0),
                        BatchMaxDuration * DurDen, "none", "absent")

\* 8-bit files at the target rate, of every length up to MaxSerialLen frames.
InitSerial ==
    \E n \in 0..MaxSerialLen, seed \in 0..MaxSeed, chans \in {1, 2} :
        PipeState(MkWav(1, chans, TargetRate, n, Pattern(1, seed, n * chans), 0),
                  DefaultMaxDuration * DurDen, "none", "absent")

(***************************************************************************)
(* convert_wav_to_mozzi_sample, one action per stage.  An error raised in  *)
(* the try block reaches the handler: `return False` when the handler      *)
(* catches its class, and it leaves the function otherwise.                *)
(***************************************************************************)
Raise(exc) ==
    IF Catches(exc)
    THEN pc' = "done" /\ result' = "False"
    ELSE pc' = "raised" /\ result' = "raised"

\* with wave.open(input_file, 'rb') as wav_file
OpenStage ==
    /\ pc = "open"
    /\ IF fault = "open" THEN Raise(ExcOf("open")) ELSE pc' = "decode" /\ result' = result
    /\ UNCHANGED <<wav, max_duration, fault, raw_audio, samples, sample_rate,
                   channels, frames, stage_in, text, length_const, outfile>>
    /\ UNCHANGED batch_vars

\* A mutation: the output header opened for writing before the input is read.
DecodeStageOpensOutput ==
    /\ pc = "decode"
    /\ outfile' = "partial"
    /\ IF wav.rate = 0 \/ fault = "decode"
       THEN /\ Raise(IF wav.rate = 0 THEN "ZeroDivisionError" ELSE ExcOf("decode"))
            /\ UNCHANGED <<frames, raw_audio>>
       ELSE /\ frames' = TruncatedFrames(wav.nframes, max_duration, wav.rate)
            /\ raw_audio' = ReadFrames(wav.data, frames', wav.channels * wav.width)
            /\ pc' = "requantize"
            /\ result' = result
    /\ sample_rate' = wav.rate
    /\ channels' = wav.channels
    /\ UNCHANGED <<wav, max_duration, fault, samples, stage_in, text, length_const>>
    /\ UNCHANGED batch_vars

\* The properties, the truncation to max_duration and readframes.
DecodeStage ==
    /\ pc = "decode"
    /\ IF wav.rate = 0 \/ fault = "decode"
       THEN /\ Raise(IF wav.rate = 0 THEN "ZeroDivisionError" ELSE ExcOf("decode"))
            /\ UNCHANGED <<frames, raw_audio>>
       ELSE /\ frames' = TruncatedFrames(wav.nframes, max_duration, wav.rate)
            /\ raw_audio' = ReadFrames(wav.data, frames', wav.channels * wav.width)
            /\ pc' = "requantize"
            /\ result' = result
    /\ sample_rate' = wav.rate
    /\ channels' = wav.channels
    /\ UNCHANGED <<wav, max_duration, fault, samples, stage_in, text, length_const,
                   outfile>>
    /\ UNCHANGED batch_vars

\* Convert to 16-bit samples.
RequantizeStage ==
    /\ pc = "requantize"
    /\ LET r == Requantize(wav.width, raw_audio)
       IN  IF fault = "requantize" \/ r.exc # "none"
           THEN /\ Raise(IF r.exc # "none" THEN r.exc ELSE ExcOf("requantize"))
                /\ UNCHANGED samples
           ELSE /\ samples' = r.samples
                /\ pc' = "mix"
                /\ result' = result
    /\ UNCHANGED <<wav, max_duration, fault, raw_audio, sample_rate, channels,
                   frames, stage_in, text, length_const, outfile>>
    /\ UNCHANGED batch_vars

\* Convert stereo to mono if needed.
MixStage ==
    /\ pc = "mix"
    /\ stage_in' = samples
    /\ IF channels = 2
       THEN IF fault = "mix"
            THEN Raise(ExcOf("mix")) /\ UNCHANGED <<samples, channels>>
            ELSE /\ samples' = MixStereo(samples)
                 /\ channels' = 1
                 /\ pc' = "resample"
                 /\ result' = result
       ELSE pc' = "resample" /\ UNCHANGED <<samples, channels, result>>
    /\ UNCHANGED <<wav, max_duration, fault, raw_audio, sample_rate, frames, text,
                   length_const, outfile>>
    /\ UNCHANGED batch_vars

\* Resample to 16384 Hz unless the file is at that rate.
ResampleStage ==
    /\ pc = "resample"
    /\ stage_in' = samples
    /\ IF sample_rate # TargetRate
       THEN LET r == Resample(samples, sample_rate)
            IN  IF fault = "resample" \/ r.exc # "none"
                THEN /\ Raise(IF r.exc # "none" THEN r.exc ELSE ExcOf("resample"))
                     /\ UNCHANGED <<samples, sample_rate>>
                ELSE /\ samples' = r.samples
                     /\ sample_rate' = TargetRate
                     /\ pc' = "final"
                     /\ result' = result
       ELSE pc' = "final" /\ UNCHANGED <<samples, sample_rate, result>>
    /\ UNCHANGED <<wav, max_duration, fault, raw_audio, channels, frames, text,
                   length_const, outfile>>
    /\ UNCHANGED batch_vars

\* Convert to 8-bit signed.
FinalStage ==
    /\ pc = "final"
    /\ stage_in' = samples
    /\ IF fault = "final"
       THEN Raise(ExcOf("final")) /\ UNCHANGED samples
       ELSE /\ samples' = FinalRequantize(samples)
            /\ pc' = "serialize"
            /\ result' = result
    /\ UNCHANGED <<wav, max_duration, fault, raw_audio, sample_rate, channels,
                   frames, text, length_const, outfile>>
    /\ UNCHANGED batch_vars

\* with open(output_file, 'w') as f: the header, then `return True`.
SerializeStage ==
    /\ pc = "serialize"
    /\ IF fault = "create"
       THEN Raise(ExcOf("create")) /\ UNCHANGED <<outfile, text, length_const>>
       ELSE IF fault = "write"
       THEN /\ Raise(ExcOf("write"))
            /\ outfile' = "partial"
            /\ UNCHANGED <<text, length_const>>
       ELSE /\ outfile' = "written"
            /\ text' = ArrayText(samples)
            /\ length_const' = Len(samples)
            /\ pc' = "done"
            /\ result' = "True"
    /\ UNCHANGED <<wav, max_duration, fault, raw_audio, samples, sample_rate,
                   channels, frames, stage_in>>
    /\ UNCHANGED batch_vars

Next ==
    \/ OpenStage
    \/ DecodeStage
    \/ RequantizeStage
    \/ MixStage
    \/ ResampleStage
    \/ FinalStage
    \/ SerializeStage

Spec == Init /\ [][Next]_vars

SpecTrunc == InitTrunc /\ [][Next]_vars

SpecAudio == InitAudio /\ [][Next]_vars

SpecRange == InitRange /\ [][Next]_vars

SpecSerial == InitSerial /\ [][Next]_vars

(***************************************************************************)
(* __main__: the batch loop over drum_samples.  Each listed file is        *)
(* missing, sound, or has one defect that makes one stage fail.            *)
(***************************************************************************)
SoundMono == MkWav(1, 1, TargetRate, 2, <<0, 255>>, 0)

SoundStereo == MkWav(2, 2, 8000, 1, <<-1, 0>>, 0)

BatchFiles ==
    {[exists |-> FALSE, defect |-> "none", wav |-> SoundMono, fault |-> "none"],
     [exists |-> TRUE, defect |-> "none", wav |-> SoundMono, fault |-> "none"],
     [exists |-> TRUE, defect |-> "none", wav |-> SoundStereo, fault |-> "none"],
     \* not a WAV container: wave.open raises
     [exists |-> TRUE, defect |-> "open", wav |-> SoundMono, fault |-> "open"],
     \* 40-bit samples: unsupported sample width
     [exists |-> TRUE, defect |-> "width",
      wav |-> MkWav(5, 1, TargetRate, 1, <<1>>, 0), fault |-> "none"],
     \* data chunk cut in the middle of a 16-bit sample: struct.unpack raises
     [exists |-> TRUE, defect |-> "decode",
      wav |-> MkWav(2, 1, TargetRate, 2, <<1, 2>>, 1), fault |-> "none"],
     \* out of memory while mixing
     [exists |-> TRUE, defect |-> "mix", wav |-> SoundStereo, fault |-> "mix"],
     \* no frames at a rate to resample: np.interp raises
     [exists |-> TRUE, defect |-> "resample",
      wav |-> MkWav(1, 1, 8000, 0, <<>>, 0), fault |-> "none"],
     \* the header cannot be written
     [exists |-> TRUE, defect |-> "write", wav |-> SoundMono, fault |-> "write"]}

\* A mutation: all_success = success
AllSuccessLast(all, success) == success

\* if success: ... else: all_success = False
AllSuccessAfter(all, success) == IF success THEN all ELSE FALSE

InitBatch ==
    /\ pc = "loop"
    /\ batch \in [1..NumFiles -> BatchFiles]
    /\ idx = 1
    /\ all_success = TRUE
    /\ processed = [i \in 1..NumFiles |-> "pending"]
    /\ exit_status = -1
    /\ wav = SoundMono
    /\ max_duration = BatchMaxDuration * DurDen
    /\ fault = "none"
    /\ outfile = "absent"
    /\ raw_audio = <<>>
    /\ samples = <<>>
    /\ sample_rate = 0
    /\ channels = 0
    /\ frames = 0
    /\ stage_in = <<>>
    /\ text = <<>>
    /\ length_const = -1
    /\ result = "none"

\* The head of one iteration of `for ... in drum_samples`: a missing file is
\* skipped, an existing one is handed to convert_wav_to_mozzi_sample with
\* max_duration=2.0.
CallConvert ==
    /\ pc = "loop"
    /\ idx <= NumFiles
    /\ IF ~batch[idx].exists
       THEN /\ processed' = [processed EXCEPT ![idx] = "skipped"]
            /\ idx' = idx + 1
            /\ UNCHANGED <<pc, all_success, exit_status>>
            /\ UNCHANGED pipe_vars
       ELSE /\ pc' = "open"
            /\ wav' = batch[idx].wav
            /\ fault' = batch[idx].fault
            /\ max_duration' = BatchMaxDuration * DurDen
            /\ outfile' = "absent"
            /\ raw_audio' = <<>>
            /\ samples' = <<>>
            /\ sample_rate' = 0
            /\ channels' = 0
            /\ frames' = 0
            /\ stage_in' = <<>>
            /\ text' = <<>>
            /\ length_const' = -1
            /\ result' = "none"
            /\ UNCHANGED <<idx, all_success, processed, exit_status>>
    /\ UNCHANGED batch

\* The rest of the iteration, once the call is over: all_success is updated
\* from the value returned; an exception that left the call ends the process.
AfterConvert ==
    /\ pc \in {"done", "raised"}
    /\ idx \in 1..NumFiles
    /\ IF pc = "raised"
       THEN /\ pc' = "crashed"
            /\ exit_status' = 1
            /\ UNCHANGED <<idx, all_success, processed>>
       ELSE /\ pc' = "loop"
            /\ processed' = [processed EXCEPT ![idx] = result]
            /\ all_success' = AllSuccessAfter(all_success, result = "True")
            /\ idx' = idx + 1
            /\ UNCHANGED exit_status
    /\ UNCHANGED batch
    /\ UNCHANGED pipe_vars

\* After the loop: the summary, and sys.exit(1) unless all_success.
Summary ==
    /\ pc = "loop"
    /\ idx > NumFiles
    /\ pc' = "exited"
    /\ exit_status' = IF all_success THEN 0 ELSE 1
    /\ UNCHANGED <<batch, idx, all_success, processed>>
    /\ UNCHANGED pipe_vars

NextBatch ==
    \/ CallConvert
    \/ AfterConvert
    \/ Summary
    \/ Next

SpecBatch == InitBatch /\ [][NextBatch]_vars

(***************************************************************************)
(* Properties of the batch run                                             *)
(***************************************************************************)
SomeMissing == \E i \in 1..NumFiles : ~batch[i].exists

SomeFailed == \E i \in 1..NumFiles : processed[i] = "False"

\* C1 as stated: the batch run exits non-zero exactly when some listed file is
\* missing or some conversion fails.
C1_ExitNonZeroOnMissingOrFailed ==
    pc = "exited" => (exit_status # 0 <=> (SomeMissing \/ SomeFailed))

\* C1, amended: the batch run exits with status 1 exactly when the conversion
\* of some existing file failed, and with status 0 otherwise; a missing file
\* is skipped and does not change the exit status.
C1_ExitNonZeroIffConversionFailed ==
    pc = "exited" =>
        /\ exit_status = (IF SomeFailed THEN 1 ELSE 0)
        /\ \A i \in 1..NumFiles :
              /\ ~batch[i].exists => processed[i] = "skipped"
              /\ (batch[i].exists /\ batch[i].defect # "none") => processed[i] = "False"

\* A run in which a file was missing and every other file was converted has
\* ended, with status 0.
C1_Witness ==
    /\ pc = "exited"
    /\ ~batch[1].exists
    /\ processed[1] = "skipped"
    /\ \A i \in 2..NumFiles : processed[i] = "True"
    /\ exit_status = 0

\* C2: no error of any stage leaves convert_wav_to_mozzi_sample (the call never
\* ends raised and the batch run never ends in an uncaught exception): the call
\* returns False for a file with a defect and True for a sound one, and every
\* existing file before idx, so every file listed after a failed one, has
\* been converted.
C2_FailuresIsolated ==
    /\ pc \notin {"raised", "crashed"}
    /\ \A i \in 1..NumFiles :
          (i < idx /\ batch[i].exists) =>
              processed[i] = (IF batch[i].defect = "none" THEN "True" ELSE "False")
    /\ pc = "exited" => idx = NumFiles + 1

\* The first three files failed while opening, resampling and writing, and
\* the last one was converted.
C2_Witness ==
    /\ pc = "exited"
    /\ batch[1].defect = "open" /\ processed[1] = "False"
    /\ batch[2].defect = "resample" /\ processed[2] = "False"
    /\ batch[3].defect = "write" /\ processed[3] = "False"
    /\ batch[NumFiles].exists /\ processed[NumFiles] = "True"

(***************************************************************************)
(* Properties of one conversion                                            *)
(***************************************************************************)
StageIndex(p) == CHOOSE k \in 1..Len(Stages) : Stages[k] = p

\* C10: the stages run once each in the order open, decode, requantize, mix,
\* resample, final requantize, serialize; no step taken before the serialize
\* stage touches the output file, and a step that ends the conversion before
\* the serialize stage makes it return False.
C10_FailureLeavesOutput ==
    [][/\ pc' \notin {"done", "raised"} => StageIndex(pc') = StageIndex(pc) + 1
       /\ pc # "serialize" => outfile' = outfile
       /\ (pc # "serialize" /\ pc' \in {"done", "raised"}) => result' = "False"]_vars

\* A conversion failed in the final requantizer with an older header in place.
C10_Witness ==
    /\ pc = "done"
    /\ result = "False"
    /\ fault = "final"
    /\ Len(stage_in) > 0
    /\ outfile = "old"

\* floor(max_duration * rate) for max_duration = num / DurDen
FloorDurationFrames(num, rate) ==
    (num \div DurDen) * rate + ((num % DurDen) * rate) \div DurDen

FrameSize == wav.channels * wav.width

Decoded == pc \notin {"open", "decode"}

\* The decoder read min(n, floor(d * r)) frames, all of them when n is at most
\* floor(d * r).
DecodedFrameCount ==
    Decoded =>
        LET limit == FloorDurationFrames(max_duration, wav.rate)
        IN  /\ frames = Min(wav.nframes, limit)
            /\ Len(raw_audio) = frames * FrameSize
            /\ raw_audio = SubSeq(wav.data, 1, frames * FrameSize)
            /\ wav.nframes <= limit => raw_audio = wav.data

\* C3 as stated: the decoder reads min(n, floor(d * r)) frames, and the
\* conversion of a truncated file returns True.
C3_TruncationNeverFails ==
    /\ DecodedFrameCount
    /\ (pc = "done" /\ frames < wav.nframes) => result = "True"

\* C3, amended: the decoder reads min(n, floor(d * r)) frames (a file of exactly
\* floor(d * r) frames is read whole), and the conversion of a file truncated
\* to at least one frame returns True; a file truncated to zero frames is
\* converted (True) at 16384 Hz and fails (False) at any other rate.
C3_TruncationBoundary ==
    /\ DecodedFrameCount
    /\ (pc = "done" /\ frames < wav.nframes) =>
          result = (IF frames >= 1 \/ wav.rate = TargetRate THEN "True" ELSE "False")

\* A file of more frames than floor(d * r), where d * r is no integer, was cut
\* and converted.
C3_Witness ==
    /\ pc = "done"
    /\ result = "True"
    /\ ((max_duration % DurDen) * wav.rate) % DurDen # 0
    /\ frames = 2
    /\ wav.nframes > frames
    /\ wav.channels = 2

\* The file of the end-to-end example: 8-bit mono, samples 0, 128, 255, 64.
IsExample(rate) ==
    /\ wav.width = 1
    /\ wav.channels = 1
    /\ wav.rate = rate
    /\ wav.nframes = 4
    /\ wav.data = <<0, 128, 255, 64>>
    /\ fault = "none"

\* C5 as stated: the 8000 Hz example gives [-32768, 0, 32512, -16384] after
\* requantization and the final output [-128, 0, 127, -64].
C5_ExampleFinalFourSamples ==
    IsExample(8000) =>
        /\ pc = "mix" => samples = <<-32768, 0, 32512, -16384>>
        /\ pc = "done" => samples = <<-128, 0, 127, -64>>

\* C5, amended: the 8000 Hz example gives [-32768, 0, 32512, -16384] after
\* requantization; resampled to 16384 Hz it has 8 samples and the final output
\* is [-128, -73, -18, 36, 90, 99, 17, -64]; the same samples in a 16384 Hz
\* file give the final output [-128, 0, 127, -64].
C5_ExampleResampled ==
    /\ IsExample(8000) =>
          /\ pc = "mix" => samples = <<-32768, 0, 32512, -16384>>
          /\ pc = "done" =>
                /\ result = "True"
                /\ samples = <<-128, -73, -18, 36, 90, 99, 17, -64>>
    /\ IsExample(TargetRate) =>
          /\ pc = "mix" => samples = <<-32768, 0, 32512, -16384>>
          /\ pc = "done" => result = "True" /\ samples = <<-128, 0, 127, -64>>

\* The 8000 Hz example has been converted.
C5_Witness ==
    /\ IsExample(8000)
    /\ pc = "done"
    /\ result = "True"
    /\ Len(samples) = 8

\* C6 as stated: the mixer drops an unpaired trailing sample and gives, per
\* frame (l, r), the average (l + r) / 2 rounded toward zero.
C6_MixTruncates ==
    (pc = "resample" /\ wav.channels = 2) =>
        /\ Len(samples) = Len(stage_in) \div 2
        /\ \A k \in 1..Len(samples) :
              LET sum == stage_in[2 * k - 1] + stage_in[2 * k]
              IN  samples[k] = (IF sum >= 0 THEN sum \div 2 ELSE -((-sum) \div 2))

\* C6, amended: the mixer drops an unpaired trailing sample and gives, per
\* complete frame (l, r), the average (l + r) / 2 rounded down (toward minus
\* infinity): the mono sample m has 2m <= l + r <= 2m + 1.
C6_MixFloors ==
    (pc = "resample" /\ wav.channels = 2) =>
        /\ Len(samples) = Len(stage_in) \div 2
        /\ channels = 1
        /\ \A k \in 1..Len(samples) :
              LET sum == stage_in[2 * k - 1] + stage_in[2 * k]
              IN  2 * samples[k] <= sum /\ sum <= 2 * samples[k] + 1

\* An odd number of samples with a frame whose sum is negative and odd was mixed.
C6_Witness ==
    /\ pc = "resample"
    /\ wav.channels = 2
    /\ Len(stage_in) % 2 = 1
    /\ \E k \in 1..Len(samples) :
          LET sum == stage_in[2 * k - 1] + stage_in[2 * k]
          IN  sum < 0 /\ sum % 2 = 1

\* C7 as stated: a buffer of n samples at a rate s other than 16384 is
\* resampled to round(n * 16384 / s) samples, and left as it is at 16384 Hz.
C7_LengthRounded ==
    [][pc = "resample" =>
          IF sample_rate = TargetRate THEN samples' = samples
          ELSE Len(samples') = RoundDiv(Len(samples) * TargetRate, sample_rate)]_vars

\* C7, amended: a non-empty buffer of n samples at a rate s other than 16384 is
\* resampled to floor(n * 16384 / s) samples (the product truncated, not
\* rounded); an empty buffer at such a rate makes the conversion return False;
\* at 16384 Hz the stage is skipped and the buffer is unchanged.
C7_LengthTruncated ==
    [][pc = "resample" =>
          IF sample_rate = TargetRate
          THEN samples' = samples /\ pc' = "final"
          ELSE IF Len(samples) = 0
          THEN pc' = "done" /\ result' = "False"
          ELSE /\ pc' = "final"
               /\ sample_rate' = TargetRate
               /\ Len(samples') * sample_rate <= Len(samples) * TargetRate
               /\ Len(samples) * TargetRate < (Len(samples') + 1) * sample_rate]_vars

\* Three samples at 65536 Hz (0.75 of a sample at 16384 Hz) were resampled to none.
C7_Witness ==
    /\ pc = "final"
    /\ wav.rate = 65536
    /\ sample_rate = TargetRate
    /\ Len(stage_in) = 3
    /\ Len(samples) = 0

\* The i-th sample of the file as the WAV format defines it: an unsigned byte
\* about the midpoint 128 for 8-bit files, a signed integer otherwise.
InputSample(i) ==
    IF wav.width = 1 THEN wav.data[i] - 128
    ELSE SignedLE(SubSeq(wav.data, wav.width * (i - 1) + 1, wav.width * i))

InputCount == Len(wav.data) \div wav.width

\* x / 256 rounded toward zero is q
IsTruncatedQuotient256(x, q) ==
    IF x >= 0 THEN 256 * q <= x /\ x <= 256 * q + 255
    ELSE 256 * q - 255 <= x /\ x <= 256 * q

\* C4: for every sample width, every sample is in [-32768, 32767] after the
\* first requantization, after mixing and after resampling, and every sample
\* of the final output is in [-128, 127] and is the 16-bit sample divided by
\* 256 (rounded toward zero), one output sample per 16-bit sample.
C4_NarrowingSaturates ==
    /\ pc \in {"mix", "resample", "final"} =>
          /\ \A i \in 1..Len(samples) : InInt16(samples[i])
          /\ pc = "mix" => Len(samples) = InputCount
    /\ (pc = "serialize" \/ (pc = "done" /\ result = "True")) =>
          /\ Len(samples) = Len(stage_in)
          /\ \A i \in 1..Len(samples) :
                /\ InInt8(samples[i])
                /\ InInt16(stage_in[i])
                /\ IsTruncatedQuotient256(stage_in[i], samples[i])

\* A 32-bit file holding the smallest and the largest sample was converted.
C4_Witness ==
    /\ pc = "done"
    /\ result = "True"
    /\ wav.width = 4
    /\ wav.channels = 1
    /\ wav.rate # TargetRate
    /\ InputCount = 2
    /\ InputSample(1) = -2147483647 - 1
    /\ InputSample(2) = 2147483647
    /\ samples[1] = -128
    /\ samples[Len(samples)] = 127

\* A mono file at the target rate was converted: one output per input sample.
ConvertedSampleWise ==
    /\ pc = "done"
    /\ result = "True"
    /\ wav.channels = 1
    /\ wav.rate = TargetRate

\* C9: for every sample width and every two input samples a <= b, the 8-bit
\* outputs satisfy out(a) <= out(b); a negative input never gives a positive
\* output and a positive input never gives a negative one.
C9_RequantizationMonotonic ==
    ConvertedSampleWise =>
        /\ Len(samples) = InputCount
        /\ \A i, j \in 1..InputCount :
              InputSample(i) <= InputSample(j) => samples[i] <= samples[j]
        /\ \A i \in 1..InputCount :
              /\ InputSample(i) < 0 => samples[i] <= 0
              /\ InputSample(i) > 0 => samples[i] >= 0

\* A 24-bit file holding a negative sample and then a positive one was converted.
C9_Witness ==
    /\ ConvertedSampleWise
    /\ wav.width = 3
    /\ InputCount = 2
    /\ InputSample(1) = -8388607 - 1
    /\ InputSample(2) = 8388607
    /\ samples = <<-128, 127>>

\* C8: the rows written for the array parse back, as a comma-separated list
\* with a comma between any two elements and none after the last, to exactly
\* the final samples in order, and the length constant written is their number.
C8_SerializationRoundTrip ==
    (pc = "done" /\ result = "True") =>
        LET toks == Tokens(text)
        IN  /\ WellFormedList(toks)
            /\ ParsedValues(toks) = samples
            /\ CountChar(text, ",") = Max(Len(samples) - 1, 0)
            /\ length_const = Len(samples)

\* Two full rows of 16 samples were written.
C8_Witness ==
    /\ pc = "done"
    /\ result = "True"
    /\ Len(samples) = 2 * RowLen
    /\ outfile = "written"
    /\ text # <<>>

====
